---------------------------- MODULE Spec2Model ----------------------------
(***************************************************************************)
(* A model of src/src/transforms.py: the image augmentation operators and  *)
(* build_transforms.                                                       *)
(*                                                                         *)
(* Reals are exact rationals <<numerator, denominator>>.  A pixel value is *)
(* an integer number of units of 10^-9.  An image is a record              *)
(*   [rep, C, H, W, px]                                                    *)
(* rep the representation ("pil", "tensor", "ndarray"), C/H/W the channel  *)
(* count, height and width, px the pixels, indexed <<c, r, k>> from 0      *)
(* (channel, row, column) whatever the memory layout of rep is.            *)
(***************************************************************************)
EXTENDS Integers, Sequences, FiniteSets, TLC

\* ---------------------------------------------------------------- bounds
\* Largest height and width of an input image.
MaxDim == 3
\* Largest configured target height and width of Random2DTranslation.
MaxTarget == 4
\* Largest height and width build_transforms is called with.
MaxSize == 2
\* Resolution of the random draws: random() yields k/Grid, 0 <= k < Grid.
Grid == 4

\* ------------------------------------------------------------- rationals
RECURSIVE GCD(_, _)
GCD(a, b) == IF b = 0 THEN a ELSE GCD(b, a % b)
Abs(n) == IF n < 0 THEN -n ELSE n
\* n/d in lowest terms, d > 0.
Ratio(n, d) == LET g == GCD(Abs(n), d) IN <<n \div g, d \div g>>
RLess(a, b) == a[1] * b[2] < b[1] * a[2]
RMul(a, b) == Ratio(a[1] * b[1], a[2] * b[2])
RAdd(a, b) == Ratio(a[1] * b[2] + b[1] * a[2], a[2] * b[2])
RSub(a, b) == Ratio(a[1] * b[2] - b[1] * a[2], a[2] * b[2])
RInv(a) == <<a[2], a[1]>>
RInt(n) == <<n, 1>>

\* Python round() of the rational n/d >= 0: to nearest, ties to even.
RoundHalfEven(n, d) ==
    LET q == n \div d
        rem == n % d
    IN  IF 2 * rem < d THEN q
        ELSE IF 2 * rem > d THEN q + 1
        ELSE IF q % 2 = 0 THEN q ELSE q + 1

\* floor(sqrt(n/d)) for n >= 0, d > 0.
FloorSqrt(n, d) ==
    CHOOSE k \in 0..(n \div d + 1) : k * k * d <= n /\ (k + 1) * (k + 1) * d > n

\* int(round(math.sqrt(x))) for the rational x = n/d, in exact arithmetic.
RoundSqrt(n, d) ==
    LET k == FloorSqrt(n, d)
        lhs == 4 * n
        rhs == (2 * k + 1) * (2 * k + 1) * d
    IN  IF lhs < rhs THEN k
        ELSE IF lhs > rhs THEN k + 1
        ELSE IF k % 2 = 0 THEN k ELSE k + 1

\* random.random(): a value of [0, 1).
Random01 == {<<k, Grid>> : k \in 0..(Grid - 1)}
\* random.uniform(a, b) computes a + (b - a) * random().
Uniform(a, b, r) == RAdd(a, RMul(RSub(b, a), r))
\* random.uniform(0, 1): the draw of a gate.
Uniform01 == {Uniform(RInt(0), RInt(1), r) : r \in Random01}
\* The probabilities an operator is constructed with: never, the default
\* p=0.5 of every constructor, always.
Probs == {<<0, 1>>, <<1, 2>>, <<1, 1>>}
\* The p field of an operator whose constructor takes no probability.
NoP == <<0, 0>>
NoDraw == <<0, 0>>

\* ---------------------------------------------------------------- images
Idx(C, H, W) == (0..(C - 1)) \X (0..(H - 1)) \X (0..(W - 1))
Image(rep, C, H, W, px) == [rep |-> rep, C |-> C, H |-> H, W |-> W, px |-> px]
NoImage == Image("none", 0, 0, 0, <<>>)
\* An input whose pixels are pairwise distinct.
Pattern(rep, C, H, W) ==
    Image(rep, C, H, W,
          [i \in Idx(C, H, W) |-> 256 * (1 + i[3] + W * i[2] + W * H * i[1])])
\* An input of one colour per channel.
Flat(rep, C, H, W) ==
    Image(rep, C, H, W, [i \in Idx(C, H, W) |-> 256 * (1 + i[1])])
Dims == 1..MaxDim
\* Channel counts of an input: grey, RGB, and one that is neither.
Chans == {1, 2, 3}

\* PIL Image.resize((w, h), BILINEAR) of an image of one colour per channel:
\* the interpolation weights sum to 1, every output pixel has the colour.
PilResize(im, w, h) ==
    Image("pil", im.C, h, w, [i \in Idx(im.C, h, w) |-> im.px[<<i[1], 0, 0>>]])
\* PIL Image.crop((left, upper, right, lower)): the size is the box's, pixels
\* outside the source are 0.
PilCrop(im, left, upper, right, lower) ==
    Image("pil", im.C, lower - upper, right - left,
          [i \in Idx(im.C, lower - upper, right - left) |->
              IF upper + i[2] < im.H /\ left + i[3] < im.W
              THEN im.px[<<i[1], upper + i[2], left + i[3]>>] ELSE 0])

\* What a call leaves: the path it took ("skip": the gate failed, "effect",
\* "raised"), the value returned, and the caller's image object afterwards.
Outcome(path, ret, arg) == [path |-> path, ret |-> ret, arg |-> arg]

\* --------------------------------------------------- Random2DTranslation
Random2DTranslation(height, width, p) ==
    [cls |-> "Random2DTranslation", p |-> p, height |-> height, width |-> width]

Random2DTranslation_call_swapped(self, img, u, rx, ry) ==
    IF RLess(self.p, u)
    THEN Outcome("skip", PilResize(img, self.height, self.width), img)
    ELSE Outcome("effect", PilResize(img, self.width, self.height), img)

Random2DTranslation_call(self, img, u, rx, ry) ==
    IF RLess(self.p, u)
    THEN Outcome("skip", PilResize(img, self.width, self.height), img)
    ELSE LET new_width == RoundHalfEven(self.width * 9, 8)
             new_height == RoundHalfEven(self.height * 9, 8)
             resized_img == PilResize(img, new_width, new_height)
             x_maxrange == new_width - self.width
             y_maxrange == new_height - self.height
             ux == Uniform(RInt(0), RInt(x_maxrange), rx)
             uy == Uniform(RInt(0), RInt(y_maxrange), ry)
             x1 == RoundHalfEven(ux[1], ux[2])
             y1 == RoundHalfEven(uy[1], uy[2])
         IN  Outcome("effect",
                     PilCrop(resized_img, x1, y1, x1 + self.width, y1 + self.height),
                     img)

\* ---------------------------------------------------------- RandomErasing
\* The defaults of RandomErasing.__init__: sl, sh, r1 and mean.
sl == <<2, 100>>
sh == <<40, 100>>
r1 == <<3, 10>>
mean == <<491400000, 482200000, 446500000>>
\* range(100): the number of placement attempts of one call.
AttemptBound == 100

RandomErasing(probability) ==
    [cls |-> "RandomErasing", p |-> probability, height |-> 0, width |-> 0]

NoRect == [x1 |-> 0, y1 |-> 0, h |-> 0, w |-> 0]

\* One attempt's rectangle size from its two draws: <<h, w>>.
RandomErasing_hw(img, ra, rr) ==
    LET area == img.H * img.W
        target_area == RMul(Uniform(sl, sh, ra), RInt(area))
        aspect_ratio == Uniform(r1, RInv(r1), rr)
        ta == RMul(target_area, aspect_ratio)
        tb == RMul(target_area, RInv(aspect_ratio))
    IN  <<RoundSqrt(ta[1], ta[2]), RoundSqrt(tb[1], tb[2])>>

RandomErasing_fits_inclusive(img, h, w) == w <= img.W /\ h <= img.H

\* if w < img.size()[2] and h < img.size()[1]
RandomErasing_fits(img, h, w) == w < img.W /\ h < img.H

InRect(i, x1, y1, h, w) ==
    x1 <= i[2] /\ i[2] < x1 + h /\ y1 <= i[3] /\ i[3] < y1 + w

\* The slice assignments img[c, x1:x1+h, y1:y1+w] = self.mean[c]: the three
\* channels of a 3-channel image, channel 0 alone of any other image.  A
\* slice is clipped to the tensor.
RandomErasing_erase(img, x1, y1, h, w) ==
    [img EXCEPT !.px = [i \in Idx(img.C, img.H, img.W) |->
        IF InRect(i, x1, y1, h, w) /\ (img.C = 3 \/ i[1] = 0)
        THEN mean[i[1] + 1] ELSE img.px[i]]]

\* The gate of __call__: the input itself is returned when it fails.
RandomErasing_gate(self, img, u) ==
    IF RLess(self.p, u) THEN Outcome("skip", img, img)
    ELSE Outcome("loop", NoImage, img)

RandomErasing_placed_no_return(img, x1, y1, h, w) ==
    Outcome("loop", NoImage, RandomErasing_erase(img, x1, y1, h, w))

\* A fitting attempt: erase in place at (x1, y1) and return the image.
RandomErasing_placed(img, x1, y1, h, w) ==
    LET erased == RandomErasing_erase(img, x1, y1, h, w)
    IN  Outcome("effect", erased, erased)

\* ------------------------------------------------------ ColorAugmentation
eig_vec == << <<4009, 7192, -5675>>, <<-8140, -45, -5808>>, <<4203, -6948, -5836>> >>
eig_val == <<2175, 188, 45>>
\* The draws of torch.normal the model takes, per component.
NormalDraws == {-1, 0, 1}

ColorAugmentation(p) ==
    [cls |-> "ColorAugmentation", p |-> p, height |-> 0, width |-> 0]

\* torch.mm(self.eig_val * alpha, self.eig_vec) with alpha = n * 0.1, for
\* channel c (from 0), in units of 10^-9.
Quatity(n, c) ==
    eig_val[1] * n[1] * eig_vec[1][c + 1] + eig_val[2] * n[2] * eig_vec[2][c + 1]
        + eig_val[3] * n[3] * eig_vec[3][c + 1]

\* tensor + quatity.view(3, 1, 1): a new tensor, a 1-channel tensor
\* broadcast to 3 channels, any other channel count refused.
AddQuatity(tensor, n) ==
    Image("tensor", 3, tensor.H, tensor.W,
          [i \in Idx(3, tensor.H, tensor.W) |->
              tensor.px[<<IF tensor.C = 1 THEN 0 ELSE i[1], i[2], i[3]>>]
                  + Quatity(n, i[1])])

ColorAugmentation_call_inplace(self, tensor, u, n) ==
    IF RLess(self.p, u) THEN Outcome("skip", tensor, tensor)
    ELSE IF tensor.C \notin {1, 3} THEN Outcome("raised", NoImage, tensor)
    ELSE Outcome("effect", AddQuatity(tensor, n), AddQuatity(tensor, n))

ColorAugmentation_call(self, tensor, u, n) ==
    IF RLess(self.p, u) THEN Outcome("skip", tensor, tensor)
    ELSE IF tensor.C \notin {1, 3} THEN Outcome("raised", NoImage, tensor)
    ELSE Outcome("effect", AddQuatity(tensor, n), tensor)

\* ------------------------------------------------------------------ flips
RandomHorizontalFlip(p) ==
    [cls |-> "RandomHorizontalFlip", p |-> p, height |-> 0, width |-> 0]
RandomVerticalFlip(p) ==
    [cls |-> "RandomVerticalFlip", p |-> p, height |-> 0, width |-> 0]

\* torch.flip(tensor, dims=[-1]) and dims=[-2]: a new tensor.
FlipLast(t) ==
    [t EXCEPT !.px = [i \in Idx(t.C, t.H, t.W) |-> t.px[<<i[1], i[2], t.W - 1 - i[3]>>]]]
FlipRows(t) ==
    [t EXCEPT !.px = [i \in Idx(t.C, t.H, t.W) |-> t.px[<<i[1], t.H - 1 - i[2], i[3]>>]]]

RandomHorizontalFlip_call_inverted(self, tensor, u) ==
    IF RLess(u, self.p) THEN Outcome("skip", tensor, tensor)
    ELSE Outcome("effect", FlipLast(tensor), tensor)

RandomHorizontalFlip_call(self, tensor, u) ==
    IF RLess(self.p, u) THEN Outcome("skip", tensor, tensor)
    ELSE Outcome("effect", FlipLast(tensor), tensor)

RandomVerticalFlip_call(self, tensor, u) ==
    IF RLess(self.p, u) THEN Outcome("skip", tensor, tensor)
    ELSE Outcome("effect", FlipRows(tensor), tensor)

\* ---------------------------------------------------------- GaussianNoise
GaussianNoise(p) ==
    [cls |-> "GaussianNoise", p |-> p, height |-> 0, width |-> 0]
\* The noise fields the model draws: one value on every pixel.
NoiseDraws == {-1000, 0, 1000}

GaussianNoise_call_inclusive(self, img, u, noise) ==
    IF ~RLess(self.p, u)
    THEN Outcome("effect", [img EXCEPT !.px = [i \in DOMAIN img.px |-> img.px[i] + noise]], img)
    ELSE Outcome("skip", img, img)

\* if random.random() < self.p: img = img + noise (a new tensor).
GaussianNoise_call(self, img, u, noise) ==
    IF RLess(u, self.p)
    THEN Outcome("effect", [img EXCEPT !.px = [i \in DOMAIN img.px |-> img.px[i] + noise]], img)
    ELSE Outcome("skip", img, img)

\* ----------------------------------------------------------- GaussianBlur
GaussianBlur ==
    [cls |-> "GaussianBlur", p |-> NoP, height |-> 0, width |-> 0]
\* kernel_size=5 with sigma 0: the fixed kernel (1, 4, 6, 4, 1) / 16.
Kernel == <<1, 4, 6, 4, 1>>

\* The default border of cv2.GaussianBlur, BORDER_REFLECT_101.
RECURSIVE Reflect101(_, _)
Reflect101(q, len) ==
    IF len = 1 THEN 0
    ELSE IF q < 0 THEN Reflect101(-q, len)
    ELSE IF q >= len THEN Reflect101(2 * len - 2 - q, len)
    ELSE q

\* The 25 taps of the separable kernel around pixel i, over 16 * 16.
BlurAt(img, i) ==
    LET tap(n) == LET a == (n \div 5) - 2
                      b == (n % 5) - 2
                  IN  Kernel[a + 3] * Kernel[b + 3]
                      * img.px[<<i[1], Reflect101(i[2] + a, img.H),
                                 Reflect101(i[3] + b, img.W)>>]
        sum[n \in 0..25] == IF n = 0 THEN 0 ELSE sum[n - 1] + tap(n - 1)
    IN  sum[25] \div 256

\* cv2.GaussianBlur(img, (5, 5), 0): a new array, no gate.
GaussianBlur_call(self, img) ==
    Outcome("effect",
            Image("ndarray", img.C, img.H, img.W,
                  [i \in Idx(img.C, img.H, img.W) |-> BlurAt(img, i)]),
            img)

\* ------------------------------------------------------- ElasticTransform
ElasticTransform(p) ==
    [cls |-> "ElasticTransform", p |-> p, height |-> 0, width |-> 0]
\* The displacement fields the model draws: one whole-pixel shift of every
\* pixel, of the range [-1, 1) of rand * 2 - 1 (sigma 0.05 filters nothing).
Shifts == {-1, 0}

\* map_coordinates(img_np, (y + dy, x + dx, z), order=1): 0 outside.
ElasticTransform_call(self, img, u, dx, dy) ==
    IF RLess(u, self.p)
    THEN IF img.C = 1 THEN Outcome("raised", NoImage, img)
         ELSE Outcome("effect",
                      Image("pil", img.C, img.H, img.W,
                            [i \in Idx(img.C, img.H, img.W) |->
                                IF i[2] + dy \in 0..(img.H - 1) /\ i[3] + dx \in 0..(img.W - 1)
                                THEN img.px[<<i[1], i[2] + dy, i[3] + dx>>] ELSE 0]),
                      img)
    ELSE Outcome("skip", img, img)

\* ------------------------------------------------------------------ state
VARIABLES
    self,       \* the operator object: its class and configuration
    self0,      \* the configuration the operator was constructed with
    img,        \* the caller's image object, as it is now
    img0,       \* the pixels and size that object had when the call began
    ret,        \* the value the call returned, NoImage before it returns
    pc,         \* the call: "idle" before it, "loop" inside RandomErasing's
                \* loop, then "skip", "effect", "gaveup" or "raised"
    gate,       \* the draw the call's probability gate compared with p
    attempts,   \* RandomErasing: the iterations the loop has begun, while it
                \* runs and once it ran out; 0 when the call has returned from
                \* inside the loop (the loop variable is gone with the frame)
    nerased,    \* RandomErasing: the slice assignments groups done in this call
    rect,       \* RandomErasing: the last rectangle erased
    flags,      \* build_transforms: its boolean arguments
    size,       \* build_transforms: its height and width arguments
    transform_train,    \* the train pipeline built, a sequence of steps
    transform_test,     \* the test pipeline built
    pipeline,   \* the pipeline being applied to a sample
    pos,        \* the index in pipeline of the step to run next
    cur,        \* the shape of the value handed to that step
    status      \* "unbuilt", "built", then per sample "running" and
                \* "done" or "raised"

opvars == <<self, self0, img, img0, ret, pc, gate, attempts, nerased, rect>>
pipevars == <<flags, size, transform_train, transform_test, pipeline, pos, cur, status>>
vars == <<opvars, pipevars>>

Returned == {"skip", "effect", "gaveup"}
Ended == Returned \cup {"raised"}

\* The operators a caller can construct, and the inputs each is called on:
\* the representation its code handles.
Operators ==
    {Random2DTranslation(h, w, p) : h \in 1..MaxTarget, w \in 1..MaxTarget, p \in Probs}
    \cup {RandomErasing(p) : p \in Probs}
    \cup {ColorAugmentation(p) : p \in Probs}
    \cup {RandomHorizontalFlip(p) : p \in Probs}
    \cup {RandomVerticalFlip(p) : p \in Probs}
    \cup {GaussianNoise(p) : p \in Probs}
    \cup {GaussianBlur}
    \cup {ElasticTransform(p) : p \in Probs}

\* The input of shape C x H x W an operator of class cls is called on.
Input(cls, C, H, W) ==
    CASE cls = "Random2DTranslation" -> Flat("pil", C, H, W)
      [] cls = "GaussianBlur" -> Pattern("ndarray", C, H, W)
      [] cls = "ElasticTransform" -> Pattern("pil", C, H, W)
      [] OTHER -> Pattern("tensor", C, H, W)

InputsOf(op) == {Input(op.cls, C, H, W) : C \in Chans, H \in Dims, W \in Dims}

Shape(rep, C, H, W) == [rep |-> rep, C |-> C, H |-> H, W |-> W]
ShapeOf(im) == Shape(im.rep, im.C, im.H, im.W)
FlagNames ==
    {"random_erase", "color_jitter", "color_aug", "horizontal_flip", "vertical_flip",
     "gaussian_noise", "gaussian_blur", "elastic_transform"}

\* No pipeline is built or applied.
NoPipeline ==
    /\ flags = [f \in FlagNames |-> FALSE]
    /\ size = [height |-> 0, width |-> 0]
    /\ transform_train = <<>>
    /\ transform_test = <<>>
    /\ pipeline = <<>>
    /\ pos = 0
    /\ cur = ShapeOf(NoImage)
    /\ status = "unbuilt"

Init ==
    /\ NoPipeline
    /\ self \in Operators
    /\ self0 = self
    /\ img \in InputsOf(self)
    /\ img0 = img
    /\ ret = NoImage
    /\ pc = "idle"
    /\ gate = NoDraw
    /\ attempts = 0
    /\ nerased = 0
    /\ rect = NoRect

\* A call that is one step: its outcome becomes the state.
Finish(outcome, u) ==
    \E o \in {outcome} :
        /\ pc' = o.path
        /\ ret' = o.ret
        /\ img' = o.arg
        /\ gate' = u
        /\ UNCHANGED <<self, self0, img0, attempts, nerased, rect, pipevars>>

CallRandom2DTranslation ==
    /\ pc = "idle" /\ self.cls = "Random2DTranslation"
    /\ \E u \in Uniform01, rx \in Random01, ry \in Random01 :
          Finish(Random2DTranslation_call(self, img, u, rx, ry), u)

CallColorAugmentation ==
    /\ pc = "idle" /\ self.cls = "ColorAugmentation"
    /\ \E u \in Uniform01, n \in NormalDraws \X NormalDraws \X NormalDraws :
          Finish(ColorAugmentation_call(self, img, u, n), u)

CallRandomHorizontalFlip ==
    /\ pc = "idle" /\ self.cls = "RandomHorizontalFlip"
    /\ \E u \in Uniform01 : Finish(RandomHorizontalFlip_call(self, img, u), u)

CallRandomVerticalFlip ==
    /\ pc = "idle" /\ self.cls = "RandomVerticalFlip"
    /\ \E u \in Uniform01 : Finish(RandomVerticalFlip_call(self, img, u), u)

CallGaussianNoise ==
    /\ pc = "idle" /\ self.cls = "GaussianNoise"
    /\ \E u \in Random01, noise \in NoiseDraws :
          Finish(GaussianNoise_call(self, img, u, noise), u)

CallGaussianBlur ==
    /\ pc = "idle" /\ self.cls = "GaussianBlur"
    /\ Finish(GaussianBlur_call(self, img), NoDraw)

CallElasticTransform ==
    /\ pc = "idle" /\ self.cls = "ElasticTransform"
    /\ \E u \in Random01, dx \in Shifts, dy \in Shifts :
          Finish(ElasticTransform_call(self, img, u, dx, dy), u)

\* RandomErasing.__call__ up to its loop.
CallRandomErasing ==
    /\ pc = "idle" /\ self.cls = "RandomErasing"
    /\ \E u \in Uniform01 :
          LET o == RandomErasing_gate(self, img, u)
          IN  /\ pc' = o.path /\ ret' = o.ret /\ img' = o.arg /\ gate' = u
    /\ UNCHANGED <<self, self0, img0, attempts, nerased, rect, pipevars>>

\* One iteration of the loop: the rectangle size of its two draws, then
\* either the placement (random.randint is inclusive at both ends) and the
\* return, or the next iteration.
ErasingAttempt ==
    /\ pc = "loop" /\ attempts < AttemptBound
    /\ \E hw \in {RandomErasing_hw(img, ra, rr) : ra \in Random01, rr \in Random01} :
          \E h \in {hw[1]}, w \in {hw[2]} :
             IF RandomErasing_fits(img, h, w)
             THEN \E x1 \in 0..(img.H - h), y1 \in 0..(img.W - w) :
                     \E o \in {RandomErasing_placed(img, x1, y1, h, w)} :
                         /\ pc' = o.path /\ ret' = o.ret /\ img' = o.arg
                         /\ nerased' = nerased + 1
                         /\ rect' = [x1 |-> x1, y1 |-> y1, h |-> h, w |-> w]
                         /\ attempts' = IF o.path = "loop" THEN attempts + 1 ELSE 0
             ELSE /\ attempts' = attempts + 1
                  /\ UNCHANGED <<pc, ret, img, nerased, rect>>
    /\ UNCHANGED <<self, self0, img0, gate, pipevars>>

\* The loop ran out: return img.
ErasingGiveUp ==
    /\ pc = "loop" /\ attempts = AttemptBound
    /\ pc' = "gaveup"
    /\ ret' = img
    /\ UNCHANGED <<self, self0, img, img0, gate, attempts, nerased, rect, pipevars>>

\* The same operator object is called again, on a fresh image of the shape
\* of the last one.
NextCall ==
    /\ pc \in Ended
    /\ \E i \in {Input(self.cls, img0.C, img0.H, img0.W)} :
          /\ img' = i /\ img0' = i
    /\ ret' = NoImage
    /\ pc' = "idle"
    /\ gate' = NoDraw
    /\ attempts' = 0
    /\ nerased' = 0
    /\ rect' = NoRect
    /\ UNCHANGED <<self, self0, pipevars>>

Next ==
    \/ CallRandom2DTranslation
    \/ CallRandomErasing
    \/ ErasingAttempt
    \/ ErasingGiveUp
    \/ CallColorAugmentation
    \/ CallRandomHorizontalFlip
    \/ CallRandomVerticalFlip
    \/ CallGaussianNoise
    \/ CallGaussianBlur
    \/ CallElasticTransform
    \/ NextCall

Spec == Init /\ [][Next]_vars

\* -------------------------------------------------------- build_transforms
Half == <<1, 2>>
LibStep(cls, p) == [cls |-> cls, p |-> p, height |-> 0, width |-> 0]
\* T.Normalize(mean=imagenet_mean, std=imagenet_std)
normalize == LibStep("T.Normalize", NoP)

build_transforms(height, width, f) ==
    LET s1 == <<Random2DTranslation(height, width, Half)>>
        s2 == Append(s1, LibStep("T.RandomHorizontalFlip", Half))
        s3 == IF f.color_jitter THEN Append(s2, LibStep("T.ColorJitter", NoP)) ELSE s2
        s4 == Append(s3, LibStep("T.ToTensor", NoP))
        s5 == IF f.color_aug THEN s4 \o <<ColorAugmentation(Half), normalize>> ELSE s4
        s6 == IF f.random_erase THEN Append(s5, RandomErasing(Half)) ELSE s5
        s7 == IF f.horizontal_flip THEN Append(s6, RandomHorizontalFlip(Half)) ELSE s6
        s8 == IF f.vertical_flip THEN Append(s7, RandomVerticalFlip(Half)) ELSE s7
        s9 == IF f.gaussian_noise THEN Append(s8, GaussianNoise(Half)) ELSE s8
        s10 == IF f.gaussian_blur THEN Append(s9, GaussianBlur) ELSE s9
        s11 == IF f.elastic_transform
               THEN s10 \o <<ElasticTransform(Half), normalize>> ELSE s10
    IN  [train |-> s11,
         test |-> <<[cls |-> "T.Resize", p |-> NoP, height |-> height, width |-> width],
                    LibStep("T.ToTensor", NoP), normalize>>]

\* Whether a call of the step with gate draw u runs the step's code on the
\* input; otherwise the step returns the input object untouched.
RunsOn(step, u) ==
    CASE step.cls \in {"RandomErasing", "ColorAugmentation", "RandomHorizontalFlip",
                       "RandomVerticalFlip"} -> ~RLess(step.p, u)
      [] step.cls \in {"GaussianNoise", "ElasticTransform", "T.RandomHorizontalFlip"} ->
            RLess(u, step.p)
      [] OTHER -> TRUE

\* The representations the step's code works on: PIL methods, torch
\* functions, cv2 (numpy arrays only), Image.fromarray of np.array(img).
Accepts(cls) ==
    CASE cls = "Random2DTranslation" -> {"pil"}
      [] cls \in {"T.RandomHorizontalFlip", "T.ColorJitter", "T.Resize"} -> {"pil", "tensor"}
      [] cls = "T.ToTensor" -> {"pil", "ndarray"}
      [] cls = "GaussianBlur" -> {"ndarray"}
      [] cls = "ElasticTransform" -> {"pil", "ndarray"}
      [] OTHER -> {"tensor"}

\* The representation the step returns when its code ran on rep.
Returns(cls, rep) ==
    CASE cls = "T.ToTensor" -> "tensor"
      [] cls = "GaussianBlur" -> "ndarray"
      [] cls = "ElasticTransform" -> "pil"
      [] OTHER -> rep

\* One step of T.Compose on a value of shape c: the shape returned, or the
\* step raises.  Only the two resizing steps change the height and width.
StepResult(step, c, u, rx, ry) ==
    IF ~RunsOn(step, u) THEN [raised |-> FALSE, out |-> c]
    ELSE IF c.rep \notin Accepts(step.cls) THEN [raised |-> TRUE, out |-> c]
    ELSE IF step.cls = "Random2DTranslation"
    THEN [raised |-> FALSE,
          out |-> ShapeOf(Random2DTranslation_call(
                              step, Flat(c.rep, c.C, c.H, c.W), u, rx, ry).ret)]
    ELSE IF step.cls = "T.Resize"
    THEN [raised |-> FALSE, out |-> Shape(c.rep, c.C, step.height, step.width)]
    ELSE [raised |-> FALSE, out |-> Shape(Returns(step.cls, c.rep), c.C, c.H, c.W)]

\* An operator is not called while a pipeline is modelled.
NoCall ==
    /\ self = GaussianBlur /\ self0 = GaussianBlur
    /\ img = NoImage /\ img0 = NoImage /\ ret = NoImage
    /\ pc = "idle" /\ gate = NoDraw
    /\ attempts = 0 /\ nerased = 0 /\ rect = NoRect

PipeInit ==
    /\ NoCall
    /\ NoPipeline

\* build_transforms(height, width, **flags)
Build ==
    /\ status = "unbuilt"
    /\ \E f \in [FlagNames -> BOOLEAN], height \in 1..MaxSize, width \in 1..MaxSize :
          \E b \in {build_transforms(height, width, f)} :
             /\ flags' = f
             /\ size' = [height |-> height, width |-> width]
             /\ transform_train' = b.train
             /\ transform_test' = b.test
    /\ status' = "built"
    /\ UNCHANGED <<pipeline, pos, cur, opvars>>

\* The samples a loader hands a pipeline: decoded RGB images.
Samples == {Shape("pil", 3, H, W) : H \in Dims, W \in Dims}

\* transform_train(img) begins.
ApplyTrain ==
    /\ status \in {"built", "done", "raised"}
    /\ pipeline' = transform_train
    /\ pos' = 1
    /\ cur' \in Samples
    /\ status' = "running"
    /\ UNCHANGED <<flags, size, transform_train, transform_test, opvars>>

\* transform_test(img) begins.
ApplyTest ==
    /\ status \in {"built", "done", "raised"}
    /\ pipeline' = transform_test
    /\ pos' = 1
    /\ cur' \in Samples
    /\ status' = "running"
    /\ UNCHANGED <<flags, size, transform_train, transform_test, opvars>>

\* The draws of the crop offsets, which Random2DTranslation alone takes.
CropDraws(step) ==
    IF step.cls = "Random2DTranslation" THEN Random01 ELSE {<<0, 1>>}

\* T.Compose.__call__: img = t(img) for the next t.
RunStep ==
    /\ status = "running"
    /\ \E u \in Random01, rx \in CropDraws(pipeline[pos]), ry \in CropDraws(pipeline[pos]) :
          \E r \in {StepResult(pipeline[pos], cur, u, rx, ry)} :
             /\ cur' = r.out
             /\ status' = IF r.raised THEN "raised"
                          ELSE IF pos = Len(pipeline) THEN "done" ELSE "running"
    /\ pos' = pos + 1
    /\ UNCHANGED <<flags, size, transform_train, transform_test, pipeline, opvars>>

PipeNext ==
    \/ Build
    \/ ApplyTrain
    \/ ApplyTest
    \/ RunStep

PipeSpec == PipeInit /\ [][PipeNext]_vars

\* ----------------------------------------------------------------- claims
IsZero(p) == p[2] > 0 /\ p[1] = 0
IsOne(p) == p[2] > 0 /\ p[1] = p[2]
GtGated == {"RandomErasing", "ColorAugmentation", "RandomHorizontalFlip", "RandomVerticalFlip"}
LtGated == {"GaussianNoise", "ElasticTransform"}
Erasing == self.cls = "RandomErasing"
InErased(i) == InRect(i, rect.x1, rect.y1, rect.h, rect.w)

\* C1 as stated: every operator configured with probability 0 returns the
\* input image unchanged, whatever the draw.
C1_IdentityAtZero ==
    (pc \in Returned /\ IsZero(self.p)) => ret = img0

\* C1, amended: with probability 0, GaussianNoise and ElasticTransform
\* return the input unchanged for every draw; RandomErasing,
\* ColorAugmentation and the two flips do for every gate draw above 0 (a draw
\* of exactly 0 passes their gate); Random2DTranslation then takes its
\* plain-resize path and returns an image of the configured size, the input's
\* pixels when the input has that size already; GaussianBlur has no
\* probability and always blurs.
C1_Amended ==
    /\ (pc # "idle" /\ IsZero(self.p) /\ self.cls \in LtGated)
          => (pc = "skip" /\ ret = img0 /\ img = img0)
    /\ (pc # "idle" /\ IsZero(self.p) /\ self.cls \in GtGated /\ gate[1] > 0)
          => (pc = "skip" /\ ret = img0 /\ img = img0)
    /\ (pc # "idle" /\ IsZero(self.p) /\ self.cls = "Random2DTranslation" /\ gate[1] > 0)
          => /\ pc = "skip"
             /\ ret.H = self.height /\ ret.W = self.width
             /\ (img0.H = self.height /\ img0.W = self.width) => ret = img0
    /\ (pc # "idle" /\ self.cls = "GaussianBlur") => (pc = "effect" /\ self.p = NoP)

C1_Witness ==
    /\ IsZero(self.p) /\ pc = "skip" /\ gate[1] > 0
    /\ self.cls = "RandomErasing" /\ ret = img0

\* C2 as stated: an operator configured with probability 1 never returns
\* without its effect applied.
C2_AlwaysApplies ==
    (pc \in Returned /\ IsOne(self.p)) => pc = "effect"

\* C2, amended: with probability 1 no gate draw skips the effect; every
\* operator but RandomErasing that returns has applied its effect;
\* RandomErasing has either erased one rectangle or, all 100 attempts having
\* failed to fit, returned the input unmodified.
C2_Amended ==
    (pc # "idle" /\ IsOne(self.p)) =>
        /\ pc # "skip"
        /\ (~Erasing /\ pc \in Returned) => pc = "effect"
        /\ (Erasing /\ pc \in Returned) =>
              \/ pc = "effect" /\ nerased = 1
              \/ /\ pc = "gaveup" /\ attempts = AttemptBound /\ nerased = 0
                 /\ img = img0 /\ ret = img0

C2_Witness == IsOne(self.p) /\ Erasing /\ pc = "gaveup"

C4_AreaBound ==
    (Erasing /\ pc = "effect") =>
        rect.h * rect.w * sh[2] <= sh[1] * img.H * img.W

\* C5: a call of RandomErasing makes at most 100 attempts; nothing is erased
\* while the loop goes on, one rectangle is erased when the call returns from
\* inside the loop, and when the loop ran out, after 100 attempts, the input
\* is returned with no pixel modified.
C5_BoundedSingleErase ==
    /\ attempts <= AttemptBound
    /\ nerased <= 1
    /\ pc = "loop" => (Erasing /\ nerased = 0 /\ img = img0 /\ ret = NoImage)
    /\ (Erasing /\ pc = "effect") => (nerased = 1 /\ ret = img)
    /\ pc = "gaveup" => /\ attempts = AttemptBound /\ nerased = 0
                        /\ img = img0 /\ ret = img0

C5_Witness == pc = "gaveup" /\ attempts = AttemptBound /\ nerased = 0 /\ ret = img0

\* C7 as stated: no call modifies the image object it was given.
C7_InputUntouched ==
    pc \in Ended => img = img0

\* C7, amended: every operator but RandomErasing leaves the image object it
\* was given as it was; RandomErasing modifies it in place, inside the erased
\* rectangle only, and returns that same object; no call modifies the
\* operator's configuration.
C7_Amended ==
    /\ self = self0
    /\ ~Erasing => img = img0
    /\ (Erasing /\ pc # "effect") => img = img0
    /\ (Erasing /\ pc = "effect") =>
          /\ ret = img
          /\ ShapeOf(img) = ShapeOf(img0)
          /\ \A i \in DOMAIN img.px : ~InErased(i) => img.px[i] = img0.px[i]

C7_Witness == Erasing /\ pc = "effect" /\ img # img0 /\ ret = img

\* C9 as stated: the erased rectangle lies inside the image and is strictly
\* smaller than it, pixels outside keep their value, and every pixel inside
\* is set to the fill value of its channel.
C9_EveryChannelFilled ==
    (Erasing /\ pc = "effect") =>
        /\ 0 <= rect.x1 /\ rect.x1 + rect.h <= img.H /\ rect.h < img.H
        /\ 0 <= rect.y1 /\ rect.y1 + rect.w <= img.W /\ rect.w < img.W
        /\ \A i \in DOMAIN img.px :
              img.px[i] = IF InErased(i) THEN mean[i[1] + 1] ELSE img0.px[i]

\* C9, amended: the rectangle lies inside the image and is strictly smaller
\* than it, pixels outside keep their value; inside, a 3-channel image has
\* every pixel set to the fill value of its channel, and an image of any
\* other channel count has channel 0 set to mean[0] and its other channels
\* left as they were.
C9_Amended ==
    (Erasing /\ pc = "effect") =>
        /\ 0 <= rect.x1 /\ rect.x1 + rect.h <= img.H /\ rect.h < img.H
        /\ 0 <= rect.y1 /\ rect.y1 + rect.w <= img.W /\ rect.w < img.W
        /\ \A i \in DOMAIN img.px :
              img.px[i] = IF InErased(i) /\ (img.C = 3 \/ i[1] = 0)
                          THEN mean[i[1] + 1] ELSE img0.px[i]

C9_Witness ==
    /\ Erasing /\ pc = "effect" /\ img.C = 2
    /\ rect.h >= 1 /\ rect.w >= 1
    /\ img.px[<<1, rect.x1, rect.y1>>] = img0.px[<<1, rect.x1, rect.y1>>]
    /\ img.px[<<0, rect.x1, rect.y1>>] = mean[1]

\* C6 as stated: both pipelines, applied end to end, produce an image of the
\* configured height and width, for every combination of the flags.
C6_PipelineTargetSize ==
    status \in {"done", "raised"} =>
        (status = "done" /\ cur.H = size.height /\ cur.W = size.width)

\* C8 as stated: every step is handed a representation its code works on,
\* and from the to-tensor conversion on every step receives and returns a
\* tensor.
C8_StepsGetTheirRepresentation ==
    /\ status = "running" => cur.rep \in Accepts(pipeline[pos].cls)
    /\ (status \in {"running", "done"}
            /\ \E j \in 1..(pos - 1) : pipeline[j].cls = "T.ToTensor")
          => cur.rep = "tensor"

\* C10 as stated: the train pipeline holds the normalization step exactly
\* once for every combination of the flags, and the test pipeline is resize,
\* to-tensor, normalize.
C10_NormalizeOnce ==
    status # "unbuilt" =>
        /\ Cardinality({j \in DOMAIN transform_train : transform_train[j] = normalize}) = 1
        /\ Len(transform_test) = 3
        /\ transform_test[1].cls = "T.Resize"
        /\ transform_test[2].cls = "T.ToTensor"
        /\ transform_test[3] = normalize

=============================================================================
